---- MODULE Spec2Model ----
(***************************************************************************)
(* Model of the person directory service of server.go: five HTTP handlers  *)
(* over the table individuos (id INT AUTO_INCREMENT PRIMARY KEY, nome      *)
(* VARCHAR(255) NOT NULL) reached through database/sql and the MySQL       *)
(* driver.  Each handler runs its local checks, issues at most one SQL     *)
(* statement and writes one response.                                      *)
(*                                                                         *)
(* Text that the code parses (the {id} path segment) is a sequence of      *)
(* one-character strings; names are opaque texts.  A request body is the   *)
(* JSON text seen through what json.Decoder reads of it; a response body   *)
(* is the JSON value json.Encoder writes.  The server runs with the        *)
(* driver's defaults (the DSN of configurarDB sets no parameter) and       *)
(* MySQL's default strict SQL mode; any statement may fail.  The table is  *)
(* empty when the server starts.  Response messages are written without    *)
(* diacritics and without the driver's error text appended to them.        *)
(***************************************************************************)
EXTENDS Integers, Sequences, FiniteSets, TLC

VARIABLES individuos, autoInc, emCurso, ultima, emitidos

vars == <<individuos, autoInc, emCurso, ultima, emitidos>>

(***************************************************************************)
(* Bounds of the model.                                                    *)
(***************************************************************************)
\* Largest id AUTO_INCREMENT hands out in the model.
MaxId == 2

(***************************************************************************)
(* Program constants.                                                      *)
(***************************************************************************)
StatusOK == 200
StatusNoContent == 204
StatusBadRequest == 400
StatusNotFound == 404
StatusUnsupportedMediaType == 415
StatusInternalServerError == 500

JsonCT == "application/json"
TextCT == "text/plain; charset=utf-8"

(***************************************************************************)
(* Texts.                                                                  *)
(***************************************************************************)
DigitChars == <<"0", "1", "2", "3", "4", "5", "6", "7", "8", "9">>

IsDigit(c) == \E i \in 1..Len(DigitChars) : DigitChars[i] = c

DigitVal(c) == (CHOOSE i \in 1..Len(DigitChars) : DigitChars[i] = c) - 1

RECURSIVE DecVal(_)
\* Value of a sequence of decimal digits.
DecVal(ds) ==
    IF ds = <<>> THEN 0
    ELSE 10 * DecVal(SubSeq(ds, 1, Len(ds) - 1)) + DigitVal(ds[Len(ds)])

HasSign(s) == s # <<>> /\ s[1] \in {"+", "-"}

SignOf(s) == IF s # <<>> /\ s[1] = "-" THEN -1 ELSE 1

\* strconv.Atoi: an optional sign followed by decimal digits and nothing else.
Atoi(s) ==
    LET ds == IF HasSign(s) THEN Tail(s) ELSE s
    IN  IF ds = <<>> \/ \E i \in 1..Len(ds) : ~IsDigit(ds[i])
        THEN [ok |-> FALSE, val |-> 0]
        ELSE [ok |-> TRUE, val |-> SignOf(s) * DecVal(ds)]

RECURSIVE DigitPrefix(_)
\* Longest prefix of decimal digits.
DigitPrefix(s) ==
    IF s = <<>> \/ ~IsDigit(s[1]) THEN <<>>
    ELSE <<s[1]>> \o DigitPrefix(Tail(s))

\* The number MySQL compares an integer column with when the parameter is a
\* string: the sign and the leading digits, 0 when there are none.
SqlNum(s) ==
    LET ds == DigitPrefix(IF HasSign(s) THEN Tail(s) ELSE s)
    IN  SignOf(s) * DecVal(ds)

RECURSIVE Itoa(_)
\* Decimal digits of a natural number.
Itoa(n) ==
    IF n < 10 THEN <<DigitChars[n + 1]>>
    ELSE Itoa(n \div 10) \o <<DigitChars[(n % 10) + 1]>>

(***************************************************************************)
(* Requests.                                                               *)
(***************************************************************************)
Nomes == {"", "Ana"}

\* A JSON member as the decoder meets it: absent, null, a string or a number.
Ausente == [t |-> "absent", s |-> "", n |-> 0]
JNull == [t |-> "null", s |-> "", n |-> 0]
JStr(x) == [t |-> "string", s |-> x, n |-> 0]
JNum(k) == [t |-> "number", s |-> "", n |-> k]

\* A request body: the first JSON value of the text (an object with its id and
\* nome members, or text that is no JSON value) and whether more text follows it.
Corpo(syn, i, nm, tr) == [syntax |-> syn, id |-> i, nome |-> nm, trailing |-> tr]

SemCorpo == Corpo("invalid", Ausente, Ausente, FALSE)

Corpos ==
    {SemCorpo}
    \cup {Corpo("object", Ausente, JStr(x), FALSE) : x \in Nomes}
    \cup {Corpo("object", JNum(MaxId), JStr("Ana"), FALSE),
          Corpo("object", Ausente, Ausente, FALSE),
          Corpo("object", Ausente, JNull, FALSE),
          Corpo("object", Ausente, JNum(MaxId), FALSE),
          Corpo("object", Ausente, JStr("Ana"), TRUE)}

\* The value of the request's Content-Type header: media type and parameters.
\* The header text is the media type alone exactly when params is empty.
TipoConteudo(m, ps) == [media |-> m, params |-> ps]

SemTipo == TipoConteudo("", "")

TiposConteudo ==
    {SemTipo,
     TipoConteudo(JsonCT, ""),
     TipoConteudo(JsonCT, "; charset=utf-8")}

\* The {id} path segments: never empty, any text without a slash.
Caminhos ==
    {Itoa(i) : i \in 1..(MaxId + 1)}
    \cup {<<"1", "x">>, <<"+", "1">>}

SemCaminho == <<>>

Pedido(o, ct, c, b) == [op |-> o, ctype |-> ct, path |-> c, body |-> b]

Nenhum == Pedido("none", SemTipo, SemCaminho, SemCorpo)

PedidosListar == {Pedido("listar", SemTipo, SemCaminho, SemCorpo)}

PedidosObter == {Pedido("obter", SemTipo, c, SemCorpo) : c \in Caminhos}

PedidosRemover == {Pedido("remover", SemTipo, c, SemCorpo) : c \in Caminhos}

PedidosAdicionar ==
    {Pedido("adicionar", ct, SemCaminho, b) : ct \in TiposConteudo, b \in Corpos}

PedidosModificar ==
    {Pedido("modificar", ct, c, b) : ct \in TiposConteudo, c \in Caminhos, b \in Corpos}

(***************************************************************************)
(* encoding/json.                                                          *)
(***************************************************************************)
\* type Pessoa struct { ID int `json:"id"`; Nome string `json:"nome"` }
Pessoa(i, nm) == [ID |-> i, Nome |-> nm]

PessoaZero == Pessoa(0, "")

\* json.NewDecoder(r.Body).Decode(&p): reads the first JSON value of the body
\* and nothing after it; an absent or null member leaves the field as it was,
\* a member of the wrong JSON type is an error.
Decode(b, p) ==
    IF b.syntax # "object" THEN [err |-> TRUE, p |-> p]
    ELSE
        LET idOk == b.id.t \in {"absent", "null", "number"}
            nomeOk == b.nome.t \in {"absent", "null", "string"}
            i == IF b.id.t = "number" THEN b.id.n ELSE p.ID
            nm == IF b.nome.t = "string" THEN b.nome.s ELSE p.Nome
        IN  [err |-> ~(idOk /\ nomeOk),
             p |-> Pessoa(IF idOk THEN i ELSE p.ID, IF nomeOk THEN nm ELSE p.Nome)]

\* What a response carries: nothing, a text message, or a JSON value (null, one
\* object, or an array of objects).
Conteudo(k, txt, its) == [kind |-> k, text |-> txt, items |-> its]

Vazio == Conteudo("none", "", <<>>)

JObj(p) == [id |-> p.ID, nome |-> p.Nome]

\* json.Encoder.Encode of a Pessoa.
EncodePessoa(p) == Conteudo("object", "", <<JObj(p)>>)

\* A Go slice of Pessoa: nil, or backed by an array.
NilSlice == [isNil |-> TRUE, elems |-> <<>>]

AppendSlice(l, p) == [isNil |-> FALSE, elems |-> Append(l.elems, p)]

\* json.Encoder.Encode of a []Pessoa: a nil slice encodes as null.
EncodeLista(l) ==
    IF l.isNil THEN Conteudo("null", "", <<>>)
    ELSE Conteudo("array", "", [i \in 1..Len(l.elems) |-> JObj(l.elems[i])])

(***************************************************************************)
(* net/http: the response writer.                                          *)
(***************************************************************************)
NewWriter ==
    [header |-> "", wroteHeader |-> FALSE, status |-> 0,
     contentType |-> "", body |-> Vazio]

\* w.Header().Set("Content-Type", ct)
HeaderSet(w, ct) == [w EXCEPT !.header = ct]

\* w.WriteHeader(code): sends the status line and the headers as they stand.
WriteHeader(w, code) ==
    IF w.wroteHeader THEN w
    ELSE [w EXCEPT !.wroteHeader = TRUE, !.status = code, !.contentType = w.header]

\* w.Write: the first write sends status 200 if none was sent, and a response
\* with no Content-Type header gets the sniffed type (text/plain for JSON text).
Write(w, c) ==
    LET w0 == WriteHeader(w, StatusOK)
        w1 == IF ~w.wroteHeader /\ w.header = ""
              THEN [w0 EXCEPT !.contentType = TextCT] ELSE w0
    IN  [w1 EXCEPT !.body = c]

\* http.Error: sets the plain-text content type, sends the code, writes msg.
HttpError(w, msg, code) ==
    Write(WriteHeader(HeaderSet(w, TextCT), code), Conteudo("text", msg, <<>>))

(***************************************************************************)
(* The table individuos and the five statements the handlers issue.  A     *)
(* row is [id, nome]; the rows are kept in primary-key order.              *)
(***************************************************************************)
Linha(i, nm) == [id |-> i, nome |-> nm]

\* SELECT id, nome FROM individuos
SelectAll(tab) == tab

\* SELECT id, nome FROM individuos WHERE id = ?   (the parameter is the path text)
SelectById(tab, c) == SelectSeq(tab, LAMBDA r : r.id = SqlNum(c))

\* Variant: the id is taken from the number of rows, not from AUTO_INCREMENT.
InsertRow_PorContagem(tab, ai, nm) ==
    [tab |-> Append(tab, Linha(Len(tab) + 1, nm)), autoInc |-> ai + 1,
     lastInsertId |-> Len(tab) + 1]

\* INSERT INTO individuos (nome) VALUES (?): AUTO_INCREMENT assigns the id,
\* which the result reports as LastInsertId.
InsertRow(tab, ai, nm) ==
    [tab |-> Append(tab, Linha(ai, nm)), autoInc |-> ai + 1, lastInsertId |-> ai]

\* DELETE FROM individuos WHERE id = ?   (the parameter is the path text)
DeleteById(tab, c) == SelectSeq(tab, LAMBDA r : r.id # SqlNum(c))

\* UPDATE individuos SET nome = ? WHERE id = ?: without clientFoundRows in the
\* DSN, RowsAffected counts the rows the statement changed, not those it matched.
UpdateById(tab, nm, i) ==
    [tab |-> [k \in 1..Len(tab) |->
                IF tab[k].id = i THEN Linha(tab[k].id, nm) ELSE tab[k]],
     rowsAffected |-> Cardinality({k \in 1..Len(tab) :
                                     tab[k].id = i /\ tab[k].nome # nm})]

\* rows.Scan(&p.ID, &p.Nome)
Scan(r) == Pessoa(r.id, r.nome)

(***************************************************************************)
(* The handlers.  Each is written in two parts: what it does before its    *)
(* statement (Inicio: the request alone decides it) and the statement with *)
(* the response that follows (Fim).  Inicio yields [fim, w, p, id]: fim    *)
(* says the handler has already responded; Fim yields [w, tab, autoInc,    *)
(* novo], novo being the id a successful INSERT reported (0 otherwise).    *)
(* falha says the statement returned an error.                             *)
(***************************************************************************)
Pre(f, w, p, i) == [fim |-> f, w |-> w, p |-> p, id |-> i]

Fin(w, tab, ai, nv) == [w |-> w, tab |-> tab, autoInc |-> ai, novo |-> nv]

listarPessoasInicio(req) == Pre(FALSE, NewWriter, PessoaZero, 0)

RECURSIVE ScanRows(_, _)
\* for rows.Next() { ...; listaPessoas = append(listaPessoas, p) }
ScanRows(rows, lista) ==
    IF rows = <<>> THEN lista
    ELSE ScanRows(Tail(rows), AppendSlice(lista, Scan(Head(rows))))

\* Variant: the list is encoded before the content type is set.
listarPessoasFim_EncodeAntes(pre, tab, ai, falha) ==
    IF falha
    THEN Fin(HttpError(pre.w, "Erro ao buscar pessoas", StatusInternalServerError),
             tab, ai, 0)
    ELSE LET listaPessoas == ScanRows(SelectAll(tab), NilSlice)
         IN  Fin(HeaderSet(Write(pre.w, EncodeLista(listaPessoas)), JsonCT),
                 tab, ai, 0)

listarPessoasFim(pre, tab, ai, falha) ==
    IF falha
    THEN Fin(HttpError(pre.w, "Erro ao buscar pessoas", StatusInternalServerError),
             tab, ai, 0)
    ELSE LET listaPessoas == ScanRows(SelectAll(tab), NilSlice)
         IN  Fin(Write(HeaderSet(pre.w, JsonCT), EncodeLista(listaPessoas)),
                 tab, ai, 0)

obterPessoaInicio(req) == Pre(FALSE, NewWriter, PessoaZero, 0)

\* Variant: sql.ErrNoRows is not told apart; the zero Pessoa is encoded.
obterPessoaFim_IgnoraErrNoRows(req, pre, tab, ai, falha) ==
    LET rows == SelectById(tab, req.path)
        p == IF rows = <<>> THEN PessoaZero ELSE Scan(Head(rows))
    IN  IF falha
        THEN Fin(HttpError(pre.w, "Erro ao buscar pessoa", StatusInternalServerError),
                 tab, ai, 0)
        ELSE Fin(Write(HeaderSet(pre.w, JsonCT), EncodePessoa(p)), tab, ai, 0)

obterPessoaFim(req, pre, tab, ai, falha) ==
    LET rows == SelectById(tab, req.path)
    IN  IF falha
        THEN Fin(HttpError(pre.w, "Erro ao buscar pessoa", StatusInternalServerError),
                 tab, ai, 0)
        ELSE IF rows = <<>>
        THEN Fin(HttpError(pre.w, "Pessoa nao encontrada", StatusNotFound), tab, ai, 0)
        ELSE Fin(Write(HeaderSet(pre.w, JsonCT), EncodePessoa(Scan(Head(rows)))),
                 tab, ai, 0)

\* Variant: a body without a name is refused as a bad request.
adicionarPessoaInicio_ExigeNome(req) ==
    LET w == HeaderSet(NewWriter, JsonCT)
        d == Decode(req.body, PessoaZero)
    IN  IF req.ctype # TipoConteudo(JsonCT, "")
        THEN Pre(TRUE, HttpError(w, "O Content-Type deve ser application/json",
                                 StatusUnsupportedMediaType), PessoaZero, 0)
        ELSE IF d.err \/ d.p.Nome = ""
        THEN Pre(TRUE, HttpError(w, "Erro ao decodificar JSON", StatusBadRequest),
                 PessoaZero, 0)
        ELSE Pre(FALSE, w, d.p, 0)

adicionarPessoaInicio(req) ==
    LET w == HeaderSet(NewWriter, JsonCT)
        d == Decode(req.body, PessoaZero)
    IN  IF req.ctype # TipoConteudo(JsonCT, "")
        THEN Pre(TRUE, HttpError(w, "O Content-Type deve ser application/json",
                                 StatusUnsupportedMediaType), PessoaZero, 0)
        ELSE IF d.err
        THEN Pre(TRUE, HttpError(w, "Erro ao decodificar JSON", StatusBadRequest),
                 PessoaZero, 0)
        ELSE Pre(FALSE, w, d.p, 0)

\* Variant: novaPessoa keeps the id decoded from the body.
adicionarPessoaFim_IdDoCorpo(pre, tab, ai, falha) ==
    IF falha
    THEN Fin(HttpError(pre.w, "Erro ao inserir pessoa", StatusInternalServerError),
             tab, ai, 0)
    ELSE LET resultado == InsertRow(tab, ai, pre.p.Nome)
         IN  Fin(Write(pre.w, EncodePessoa(pre.p)),
                 resultado.tab, resultado.autoInc, resultado.lastInsertId)

adicionarPessoaFim(pre, tab, ai, falha) ==
    IF falha
    THEN Fin(HttpError(pre.w, "Erro ao inserir pessoa", StatusInternalServerError),
             tab, ai, 0)
    ELSE LET resultado == InsertRow(tab, ai, pre.p.Nome)
             novaPessoa == Pessoa(resultado.lastInsertId, pre.p.Nome)
         IN  Fin(Write(pre.w, EncodePessoa(novaPessoa)),
                 resultado.tab, resultado.autoInc, resultado.lastInsertId)

removerPessoaInicio(req) == Pre(FALSE, NewWriter, PessoaZero, 0)

\* Variant: deleting no row is answered not-found.
removerPessoaFim_404SemLinha(req, pre, tab, ai, falha) ==
    IF falha
    THEN Fin(HttpError(pre.w, "Erro ao deletar pessoa", StatusInternalServerError),
             tab, ai, 0)
    ELSE IF DeleteById(tab, req.path) = tab
    THEN Fin(HttpError(pre.w, "Pessoa nao encontrada", StatusNotFound), tab, ai, 0)
    ELSE Fin(WriteHeader(pre.w, StatusNoContent), DeleteById(tab, req.path), ai, 0)

removerPessoaFim(req, pre, tab, ai, falha) ==
    IF falha
    THEN Fin(HttpError(pre.w, "Erro ao deletar pessoa", StatusInternalServerError),
             tab, ai, 0)
    ELSE Fin(WriteHeader(pre.w, StatusNoContent), DeleteById(tab, req.path), ai, 0)

modificarPessoaInicio(req) ==
    LET w == HeaderSet(NewWriter, JsonCT)
        a == Atoi(req.path)
        d == Decode(req.body, PessoaZero)
    IN  IF req.ctype # TipoConteudo(JsonCT, "")
        THEN Pre(TRUE, HttpError(w, "O Content-Type deve ser application/json",
                                 StatusUnsupportedMediaType), PessoaZero, 0)
        ELSE IF ~a.ok
        THEN Pre(TRUE, HttpError(w, "ID invalido", StatusBadRequest), PessoaZero, 0)
        ELSE IF d.err
        THEN Pre(TRUE, HttpError(w, "Erro ao decodificar JSON", StatusBadRequest),
                 PessoaZero, 0)
        ELSE Pre(FALSE, w, d.p, a.val)

modificarPessoaFim(pre, tab, ai, falha) ==
    LET resultado == UpdateById(tab, pre.p.Nome, pre.id)
        pessoaAtualizada == Pessoa(pre.id, pre.p.Nome)
    IN  IF falha
        THEN Fin(HttpError(pre.w, "Erro ao atualizar pessoa", StatusInternalServerError),
                 tab, ai, 0)
        ELSE IF resultado.rowsAffected = 0
        THEN Fin(HttpError(pre.w, "Pessoa nao encontrada", StatusNotFound),
                 resultado.tab, ai, 0)
        ELSE Fin(Write(pre.w, EncodePessoa(pessoaAtualizada)), resultado.tab, ai, 0)

\* The router: the handler registered for the request's method and path.
Inicio(req) ==
    CASE req.op = "listar" -> listarPessoasInicio(req)
      [] req.op = "obter" -> obterPessoaInicio(req)
      [] req.op = "adicionar" -> adicionarPessoaInicio(req)
      [] req.op = "remover" -> removerPessoaInicio(req)
      [] req.op = "modificar" -> modificarPessoaInicio(req)

Fim(req, pre, tab, ai, falha) ==
    CASE req.op = "listar" -> listarPessoasFim(pre, tab, ai, falha)
      [] req.op = "obter" -> obterPessoaFim(req, pre, tab, ai, falha)
      [] req.op = "adicionar" -> adicionarPessoaFim(pre, tab, ai, falha)
      [] req.op = "remover" -> removerPessoaFim(req, pre, tab, ai, falha)
      [] req.op = "modificar" -> modificarPessoaFim(pre, tab, ai, falha)

(***************************************************************************)
(* State.  individuos and autoInc are the table; emCurso holds, per        *)
(* request task, the request whose handler stands before its statement;    *)
(* ultima is the last exchange completed: the request, the response        *)
(* written, whether a statement was issued and whether it failed;          *)
(* emitidos lists the ids that successful creations have returned.         *)
(***************************************************************************)
Tarefas == {"t1", "t2"}

Troca(req, w, st, f) == [req |-> req, w |-> w, stmt |-> st, falha |-> f]

Init ==
    /\ individuos = <<>>
    /\ autoInc = 1
    /\ emCurso = [t \in Tarefas |-> Nenhum]
    /\ ultima = Troca(Nenhum, NewWriter, FALSE, FALSE)
    /\ emitidos = <<>>

\* The statement of req's handler runs against the table and the response is
\* written.  An INSERT is taken only while AUTO_INCREMENT is within MaxId.
Responder(req, falha) ==
    LET pre == Inicio(req)
        fin == Fim(req, pre, individuos, autoInc, falha)
    IN  /\ req.op = "adicionar" => autoInc <= MaxId
        /\ individuos' = fin.tab
        /\ autoInc' = fin.autoInc
        /\ ultima' = Troca(req, fin.w, TRUE, falha)
        /\ emitidos' = IF fin.novo # 0 THEN Append(emitidos, fin.novo) ELSE emitidos

\* The handler responds without reaching its statement.
Rejeitar(req) ==
    /\ ultima' = Troca(req, Inicio(req).w, FALSE, FALSE)
    /\ UNCHANGED <<individuos, autoInc, emitidos>>

\* A whole handler, from request to response.
Atender(req) ==
    /\ IF Inicio(req).fim THEN Rejeitar(req)
       ELSE \E falha \in BOOLEAN : Responder(req, falha)
    /\ UNCHANGED emCurso

listarPessoas ==
    /\ \E req \in PedidosListar : Atender(req)

obterPessoa ==
    /\ \E req \in PedidosObter : Atender(req)

adicionarPessoa ==
    /\ \E req \in PedidosAdicionar : Atender(req)

removerPessoa ==
    /\ \E req \in PedidosRemover : Atender(req)

modificarPessoa ==
    /\ \E req \in PedidosModificar : Atender(req)

Next ==
    \/ listarPessoas
    \/ obterPessoa
    \/ adicionarPessoa
    \/ removerPessoa
    \/ modificarPessoa

Spec == Init /\ [][Next]_vars

(***************************************************************************)
(* Concurrent handling.  net/http runs every request in its own task; the  *)
(* tasks share only dbConn, so they interleave at their statements, which  *)
(* the database runs one at a time.  Aceitar runs a handler up to its      *)
(* statement, Concluir runs the statement and writes the response.         *)
(***************************************************************************)
CorposConc == {Corpo("object", Ausente, JStr(x), FALSE) : x \in Nomes}

CaminhosConc == {Itoa(i) : i \in 1..MaxId}

PedidosConc ==
    {Pedido("adicionar", ct, SemCaminho, b) :
        ct \in {SemTipo, TipoConteudo(JsonCT, "")}, b \in CorposConc}
    \cup {Pedido("modificar", TipoConteudo(JsonCT, ""), c, b) :
            c \in CaminhosConc, b \in CorposConc}
    \cup {Pedido("remover", SemTipo, c, SemCorpo) : c \in CaminhosConc}

Aceitar(t) ==
    /\ emCurso[t] = Nenhum
    /\ \E req \in PedidosConc :
          IF Inicio(req).fim
          THEN Rejeitar(req) /\ UNCHANGED emCurso
          ELSE /\ emCurso' = [emCurso EXCEPT ![t] = req]
               /\ UNCHANGED <<individuos, autoInc, ultima, emitidos>>

Concluir(t) ==
    /\ emCurso[t] # Nenhum
    /\ \E falha \in BOOLEAN : Responder(emCurso[t], falha)
    /\ emCurso' = [emCurso EXCEPT ![t] = Nenhum]

NextConc ==
    \/ \E t \in Tarefas : Aceitar(t)
    \/ \E t \in Tarefas : Concluir(t)

SpecConc == Init /\ [][NextConc]_vars

(***************************************************************************)
(* Vocabulary of the properties.                                           *)
(***************************************************************************)
\* The header text is exactly application/json: what the handlers test.
TipoJson == TipoConteudo(JsonCT, "")

\* The content type declares the JSON media type, with or without parameters.
DeclaraJson(ct) == ct.media = JsonCT

\* The whole body text is one JSON value.
BemFormado(b) == b.syntax = "object" /\ ~b.trailing

\* A well-formed body of the documented shape: a text name, an integer id or none.
CorpoDePessoa(b) ==
    /\ BemFormado(b)
    /\ b.nome.t = "string"
    /\ b.id.t \in {"absent", "number"}

InteiroValido(c) == Atoi(c).ok

\* The exchange x answered op with the given status.
Respondeu(x, o, code) == x.req.op = o /\ x.w.status = code

\* The single JSON object of a response body.
Objeto(x) == x.w.body.items[1]

TemLinha(tab, i) == \E k \in 1..Len(tab) : tab[k].id = i

NomeDe(tab, i) == tab[CHOOSE k \in 1..Len(tab) : tab[k].id = i].nome

\* The rows of tab whose id is not i.
Outras(tab, i) == SelectSeq(tab, LAMBDA r : r.id # i)

(***************************************************************************)
(* C1.  Round trip Create -> Get.                                          *)
(***************************************************************************)
\* A creation with the exact JSON content type and a body of the documented
\* shape, whose INSERT did not fail.
CriacaoValida(x) ==
    /\ x.req.op = "adicionar"
    /\ x.req.ctype = TipoJson
    /\ CorpoDePessoa(x.req.body)
    /\ ~x.falha

C1_CriacaoResponde ==
    CriacaoValida(ultima) =>
        /\ ultima.w.status = StatusOK
        /\ ultima.w.body.kind = "object"
        /\ Objeto(ultima).nome = ultima.req.body.nome.s
        /\ individuos # <<>>
        /\ individuos[Len(individuos)] = Linha(Objeto(ultima).id, Objeto(ultima).nome)

C1_IdDoArmazenamento ==
    CriacaoValida(ultima') =>
        /\ Objeto(ultima').id = autoInc
        /\ ~TemLinha(individuos, Objeto(ultima').id)
        /\ individuos' = Append(individuos, Linha(autoInc, ultima'.req.body.nome.s))

C1_ObterDevolve ==
    (/\ CriacaoValida(ultima)
     /\ ultima'.req.op = "obter"
     /\ InteiroValido(ultima'.req.path)
     /\ Atoi(ultima'.req.path).val = Objeto(ultima).id
     /\ ~ultima'.falha)
    => /\ ultima'.w.status = StatusOK
       /\ ultima'.w.body = ultima.w.body

C1_LinhaPermanece ==
    \A k \in 1..Len(individuos) :
        (\/ ultima'.req.op \notin {"modificar", "remover"}
         \/ SqlNum(ultima'.req.path) # individuos[k].id)
        => \E j \in 1..Len(individuos') : individuos'[j] = individuos[k]

\* C1: a Create with the content type application/json and a well-formed body
\* of the documented shape, whose INSERT the storage accepts, answers 200 with
\* the submitted name and the id the storage assigned (fresh, whatever id the
\* body gave); the row stays as created until an Update or Delete of that id,
\* and a Get of the returned id then answers 200 with that id and that name.
C1_CriarDepoisObter ==
    /\ []C1_CriacaoResponde
    /\ [][C1_IdDoArmazenamento]_vars
    /\ [][C1_ObterDevolve]_vars
    /\ [][C1_LinhaPermanece]_vars

\* A Get answered 200 with a Person that a Create returned, named Ana.
C1_Witness ==
    /\ Respondeu(ultima, "obter", StatusOK)
    /\ \E k \in 1..Len(emitidos) : emitidos[k] = Objeto(ultima).id
    /\ Objeto(ultima).nome = "Ana"
    /\ Len(emitidos) = MaxId

(***************************************************************************)
(* C2.  List.                                                              *)
(***************************************************************************)
\* The stored rows as the JSON objects of a response, in storage order.
LinhasJson(tab) == [k \in 1..Len(tab) |-> [id |-> tab[k].id, nome |-> tab[k].nome]]

ListagemFeita(x) == x.req.op = "listar" /\ ~x.falha

\* C2: a List whose query did not fail answers 200 with a JSON array holding
\* exactly the stored Persons, an empty array when the table has no rows.
C2_ListaExata ==
    ListagemFeita(ultima) =>
        /\ ultima.w.status = StatusOK
        /\ ultima.w.body.kind = "array"
        /\ ultima.w.body.items = LinhasJson(individuos)

\* What holds of the code: the array when there are rows, null when there are none.
C2_ListaOuNull ==
    ListagemFeita(ultima) =>
        /\ ultima.w.status = StatusOK
        /\ ultima.w.body.items = LinhasJson(individuos)
        /\ ultima.w.body.kind = IF individuos = <<>> THEN "null" ELSE "array"

(***************************************************************************)
(* C3.  Update.                                                            *)
(***************************************************************************)
\* An update with the exact JSON content type, an integer path id and a body
\* of the documented shape, whose UPDATE did not fail.
ModificacaoValida(x) ==
    /\ x.req.op = "modificar"
    /\ x.req.ctype = TipoJson
    /\ InteiroValido(x.req.path)
    /\ CorpoDePessoa(x.req.body)
    /\ ~x.falha

\* C3: such an Update answers 404 exactly when no stored Person has the path
\* id; when one has, whatever its name was, it answers 200 with the path id and
\* the submitted name, and the row then holds the submitted name.
C3_ModificarSoFalhaSemLinha ==
    ModificacaoValida(ultima) =>
        LET i == Atoi(ultima.req.path).val
        IN  /\ (ultima.w.status = StatusNotFound) <=> ~TemLinha(individuos, i)
            /\ TemLinha(individuos, i) =>
                /\ ultima.w.status = StatusOK
                /\ ultima.w.body = EncodePessoa(Pessoa(i, ultima.req.body.nome.s))
                /\ NomeDe(individuos, i) = ultima.req.body.nome.s

\* What holds of the code: 200 exactly when the UPDATE changed a row, that is
\* when a row with the id existed under another name.
C3_ModificarMudouLinha ==
    (ModificacaoValida(ultima') /\ ultima' # ultima) =>
        LET i == Atoi(ultima'.req.path).val
            nm == ultima'.req.body.nome.s
            mudou == TemLinha(individuos, i) /\ NomeDe(individuos, i) # nm
        IN  /\ ultima'.w.status = IF mudou THEN StatusOK ELSE StatusNotFound
            /\ TemLinha(individuos, i) => NomeDe(individuos', i) = nm

(***************************************************************************)
(* C4.  Stored names.                                                      *)
(***************************************************************************)
\* C4 as stated: no stored Person has an empty name.
C4_NomeNaoVazio ==
    \A k \in 1..Len(individuos) : individuos[k].nome # ""

\* The name a body submits: its text, empty when the member is absent or null.
NomeSubmetido(b) == IF b.nome.t = "string" THEN b.nome.s ELSE ""

\* A body that decodes and carries an empty name, a null name or none.
SemNome(b) ==
    /\ b.syntax = "object"
    /\ b.id.t # "string"
    /\ b.nome.t \in {"absent", "null", "string"}
    /\ NomeSubmetido(b) = ""

\* C4 amended: every stored name is a text, possibly empty: a Create whose
\* body carries an empty name or no name is answered 200 and stores the empty
\* name, and so does an Update that is answered 200.
C4_NomeGravado ==
    /\ \A k \in 1..Len(individuos) : individuos[k].nome \in Nomes
    /\ (/\ ultima.req.op = "adicionar"
        /\ ultima.req.ctype = TipoJson
        /\ SemNome(ultima.req.body)
        /\ ~ultima.falha)
       => /\ ultima.w.status = StatusOK
          /\ individuos[Len(individuos)] = Linha(Objeto(ultima).id, "")
    /\ (Respondeu(ultima, "modificar", StatusOK) /\ SemNome(ultima.req.body))
       => NomeDe(individuos, Objeto(ultima).id) = ""

\* A Create with no name member was answered 200 and its row has the empty name.
C4_Witness ==
    /\ Respondeu(ultima, "adicionar", StatusOK)
    /\ ultima.req.body.nome.t = "absent"
    /\ individuos[Len(individuos)].nome = ""

(***************************************************************************)
(* C5.  Delete.                                                            *)
(***************************************************************************)
C5_Resposta ==
    ultima.req.op = "remover" =>
        /\ ultima.w.status = IF ultima.falha THEN StatusInternalServerError
                             ELSE StatusNoContent
        /\ ultima.w.status = StatusNoContent =>
            /\ ultima.w.body = Vazio
            /\ InteiroValido(ultima.req.path) =>
                  ~TemLinha(individuos, Atoi(ultima.req.path).val)

C5_Efeito ==
    (ultima'.req.op = "remover" /\ InteiroValido(ultima'.req.path)) =>
        LET i == Atoi(ultima'.req.path).val
        IN  /\ Outras(individuos', i) = Outras(individuos, i)
            /\ ~TemLinha(individuos, i) => individuos' = individuos
            /\ autoInc' = autoInc

\* C5: a Delete by id answers 204 with an empty body whether or not the row
\* exists, 500 only when the statement failed; after a 204 no row has that id,
\* every other row is as before, and deleting an absent id changes nothing.
C5_RemoverSempre204 ==
    /\ []C5_Resposta
    /\ [][C5_Efeito]_vars

\* A Delete of an id that was never assigned was answered 204 with rows stored.
C5_Witness ==
    /\ Respondeu(ultima, "remover", StatusNoContent)
    /\ InteiroValido(ultima.req.path)
    /\ \A k \in 1..Len(emitidos) : emitidos[k] # Atoi(ultima.req.path).val
    /\ Len(individuos) = MaxId

(***************************************************************************)
(* C6.  Unsupported media type.                                            *)
(***************************************************************************)
ComCorpo(x) == x.req.op \in {"adicionar", "modificar"}

\* C6: Create and Update answer 415 exactly when the request content type does
\* not declare JSON, whatever the body and the path id, and a 415 issues no
\* statement.
C6_415SeNaoDeclaraJson ==
    ComCorpo(ultima) =>
        /\ (ultima.w.status = StatusUnsupportedMediaType)
              <=> ~DeclaraJson(ultima.req.ctype)
        /\ ultima.w.status = StatusUnsupportedMediaType => ~ultima.stmt

\* What holds of the code: 415 exactly when the header text is not the exact
\* text application/json, and then no statement is issued.
C6_415SeNaoExato ==
    ComCorpo(ultima) =>
        /\ (ultima.w.status = StatusUnsupportedMediaType)
              <=> ultima.req.ctype # TipoJson
        /\ ultima.w.status = StatusUnsupportedMediaType => ~ultima.stmt

(***************************************************************************)
(* C7.  Bad request.                                                       *)
(***************************************************************************)
\* C7: with the JSON content type, Create and Update answer 400 when the body
\* is malformed JSON, Update answers 400 when the path id is no integer, and a
\* 400 issues no statement.
C7_400SeMalFormado ==
    (ComCorpo(ultima) /\ ultima.req.ctype = TipoJson) =>
        /\ ~BemFormado(ultima.req.body)
              => ultima.w.status = StatusBadRequest
        /\ (ultima.req.op = "modificar" /\ ~InteiroValido(ultima.req.path))
              => ultima.w.status = StatusBadRequest
        /\ ultima.w.status = StatusBadRequest => ~ultima.stmt

\* What holds of the code: 400 exactly when the path id of an Update is no
\* integer or the decoder fails on the first JSON value of the body.
C7_400SeDecodificadorFalha ==
    (ComCorpo(ultima) /\ ultima.req.ctype = TipoJson) =>
        /\ (ultima.w.status = StatusBadRequest)
              <=> \/ Decode(ultima.req.body, PessoaZero).err
                  \/ ultima.req.op = "modificar" /\ ~InteiroValido(ultima.req.path)
        /\ ultima.w.status = StatusBadRequest => ~ultima.stmt

(***************************************************************************)
(* C8.  Get.                                                               *)
(***************************************************************************)
C8_Resposta ==
    (ultima.req.op = "obter" /\ InteiroValido(ultima.req.path)) =>
        LET i == Atoi(ultima.req.path).val
        IN  /\ ultima.falha => ultima.w.status = StatusInternalServerError
            /\ ~ultima.falha =>
                /\ (ultima.w.status = StatusOK) <=> TemLinha(individuos, i)
                /\ (ultima.w.status = StatusNotFound) <=> ~TemLinha(individuos, i)
                /\ TemLinha(individuos, i) =>
                      ultima.w.body = EncodePessoa(Pessoa(i, NomeDe(individuos, i)))

\* Only ids that a creation returned are stored.
C8_SoIdsEmitidos ==
    \A k \in 1..Len(individuos) :
        \E j \in 1..Len(emitidos) : emitidos[j] = individuos[k].id

C8_SoLeitura ==
    ultima'.req.op \in {"obter", "listar"} =>
        /\ individuos' = individuos
        /\ autoInc' = autoInc
        /\ emitidos' = emitidos

\* C8: a Get by id answers 200 with the stored Person exactly when a row with
\* that id exists and 404 when none does, 500 only when the query failed; an id
\* never assigned or since deleted has no row, so it yields 404; Get and List
\* leave the table as it was.
C8_ObterOu404 ==
    /\ []C8_Resposta
    /\ []C8_SoIdsEmitidos
    /\ [][C8_SoLeitura]_vars

\* A Get of an id that was assigned and then deleted was answered 404.
C8_Witness ==
    /\ Respondeu(ultima, "obter", StatusNotFound)
    /\ InteiroValido(ultima.req.path)
    /\ \E j \in 1..Len(emitidos) : emitidos[j] = Atoi(ultima.req.path).val
    /\ individuos # <<>>

(***************************************************************************)
(* C9.  Concurrent requests (specification SpecConc).                      *)
(***************************************************************************)
SemRepetidos(q) == \A a, b \in 1..Len(q) : a # b => q[a] # q[b]

IdsEmOrdem(tab) == [k \in 1..Len(tab) |-> tab[k].id]

C9_IdsDistintos ==
    /\ SemRepetidos(IdsEmOrdem(individuos))
    /\ SemRepetidos(emitidos)

\* In any step the ids of the rows that remain are as they were; a new id
\* comes only with a creation and is the one the creation returned.
C9_IdsImutaveis ==
    LET velhos == IdsEmOrdem(individuos)
        novos == IdsEmOrdem(individuos')
    IN  \/ novos = velhos
        \/ /\ Respondeu(ultima', "adicionar", StatusOK)
           /\ novos = Append(velhos, Objeto(ultima').id)
        \/ /\ Respondeu(ultima', "remover", StatusNoContent)
           /\ novos = SelectSeq(velhos, LAMBDA i : i # SqlNum(ultima'.req.path))

\* A step that changes a name is an Update's, and it changes the row with the
\* path id only.
C9_ModificarSoNome ==
    (individuos' # individuos /\ IdsEmOrdem(individuos') = IdsEmOrdem(individuos)) =>
        /\ Respondeu(ultima', "modificar", StatusOK)
        /\ Outras(individuos', Atoi(ultima'.req.path).val)
              = Outras(individuos, Atoi(ultima'.req.path).val)

\* C9: however the statements of concurrent Creates, Updates and Deletes
\* interleave, stored ids are pairwise distinct, no two Creates return the same
\* id, no step changes the id of a stored row, and an Update changes only the
\* name of the row with its path id.
C9_IdsSobConcorrencia ==
    /\ []C9_IdsDistintos
    /\ [][C9_IdsImutaveis]_vars
    /\ [][C9_ModificarSoNome]_vars

\* An Update and a Delete of the same stored row stand before their statements
\* at once, after MaxId creations.
C9_Witness ==
    /\ emCurso["t1"].op = "modificar"
    /\ emCurso["t2"].op = "remover"
    /\ emCurso["t1"].path = emCurso["t2"].path
    /\ TemLinha(individuos, Atoi(emCurso["t1"].path).val)
    /\ Len(emitidos) = MaxId

(***************************************************************************)
(* C10.  Response content type.                                            *)
(***************************************************************************)
ProduzJson(x) == x.req.op \in {"listar", "obter", "adicionar", "modificar"}

\* C10: on every path of List, Get, Create and Update, error paths included,
\* the content type sent with the body is JSON.
C10_SempreJson ==
    (ProduzJson(ultima) /\ ultima.w.body # Vazio) => ultima.w.contentType = JsonCT

\* C10 amended: on every path of these endpoints that answers 200 the content
\* type is set to JSON before the body is written and the body is JSON; on
\* every error path the body is a text message sent as text/plain.
C10_JsonSoNoSucesso ==
    ProduzJson(ultima) =>
        /\ ultima.w.status = StatusOK =>
            /\ ultima.w.contentType = JsonCT
            /\ ultima.w.body.kind \in {"object", "array", "null"}
        /\ ultima.w.status # StatusOK =>
            /\ ultima.w.contentType = TextCT
            /\ ultima.w.body.kind = "text"

\* A List was answered 200 with the stored rows and the JSON content type.
C10_Witness ==
    /\ Respondeu(ultima, "listar", StatusOK)
    /\ ultima.w.contentType = JsonCT
    /\ Len(ultima.w.body.items) = MaxId

====
